---- MODULE Spec2Model ----
(***************************************************************************)
(* RateLimitedAnalyzer (src/analyzers/RateLimitedAnalyzer.ts): a bounded,  *)
(* priority-ordered, rate-limited work queue.                              *)
(*                                                                         *)
(* One action is one JavaScript task: the synchronous code that runs from  *)
(* an entry point (a call of enqueue() or clear(), a timer firing) to the  *)
(* next suspension on a timer.  The promise continuations between          *)
(* analyzeItem's sleep(100) and the callback run as microtasks of the same *)
(* task, so no caller code interleaves with them.                          *)
(*                                                                         *)
(* Time: Date.now() is kept relative.  elapsed is now - lastResetTime,     *)
(* capped at WindowMs (the code only tests it against 1000 and only        *)
(* subtracts it from 1000 when it is smaller); a timer is the number of    *)
(* milliseconds left until it fires.                                       *)
(***************************************************************************)
EXTENDS Integers, Sequences, FiniteSets, TLC

\* ---- bounds of the model ----
MaxUnits == 3
MaxLoops == 3
MaxCapacity == 3

\* ---- program constants ----
WindowMs == 1000
WorkDelayMs == 100

Units == 1..MaxUnits
LoopIds == 1..MaxLoops
\* configurations the constructor is given
WindowLimits == {1, 2}
Levels == {1, 2, 3}
\* priorities offered by callers: also below and above the valid tiers
Priorities == {0 - 1, 0, 1, 2, 3}
\* amounts by which the clock advances between two tasks
TickSteps == {100}

Configs ==
    [maxQueueSize : 1..MaxCapacity,
     requestsPerSecond : WindowLimits,
     priorityLevels : Levels]

VARIABLES
    config,        \* this.config
    queue,         \* this.queue: sequence of [id, priority]
    processing,    \* this.processing
    requestCount,  \* this.requestCount
    elapsed,       \* Date.now() - this.lastResetTime, capped at WindowMs
    pendingCount,  \* this.pendingCount
    loops,         \* the processQueue() invocations that are suspended
    rejectTimers,  \* units whose setTimeout(reject, 0) has not fired yet
    submitted,     \* per unit: "no", "admitted" or "rejected"
    delivered,     \* per unit: the callbacks invoked so far, in order
    arrivals,      \* ids of the admitted units, in order of admission
    windowStarts,  \* units dequeued since lastResetTime was last assigned
    clearCalled,   \* clear() has been called at least once
    onlySubmits,   \* every task so far was an enqueue() call
    workCalls,     \* per unit: the number of calls of analyzeItem() for it
    stopwatch,     \* milliseconds since the first enqueue() call, capped at
                   \* WindowMs; -1 when no time is being taken
    limiterConfig,      \* RateLimiter: this.config
    requestTimestamps,  \* RateLimiter: this.requestTimestamps, as ages in
                        \* ms (Date.now() - timestamp), capped at timeWindowMs
    calls               \* RateLimiter: the executeWithRetry() calls

analyzerVars ==
    <<config, queue, processing, requestCount, elapsed, pendingCount,
      loops, rejectTimers, submitted, delivered, arrivals, windowStarts,
      clearCalled, onlySubmits, workCalls, stopwatch>>
limiterVars == <<limiterConfig, requestTimestamps, calls>>
vars == <<analyzerVars, limiterVars>>

NoItem == [id |-> 0, priority |-> 0]
Off == [st |-> "off", item |-> NoItem, rem |-> 0]

Min(a, b) == IF a < b THEN a ELSE b
Max(a, b) == IF a > b THEN a ELSE b

\* ---- helpers over the state ----
QueuedIds == {queue[i].id : i \in 1..Len(queue)}
ActiveLoops == {l \in LoopIds : loops[l].st # "off"}
WorkingLoops == {l \in LoopIds : loops[l].st = "work"}
ExecutingIds == {loops[l].item.id : l \in WorkingLoops}
FreeLoops == {l \in LoopIds : loops[l].st = "off"}
NewLoop == CHOOSE l \in FreeLoops : \A m \in FreeLoops : l <= m


\* ---- enqueue(): admission check, clamp, insertByPriority ----
QueueFullLax(pc) == pc > config.maxQueueSize
QueueFull(pc) == pc >= config.maxQueueSize

ClampPriorityNoFloor(p) == Min(p, config.priorityLevels - 1)
ClampPriority(p) == Max(0, Min(p, config.priorityLevels - 1))

RECURSIVE InsertAt(_, _, _)
InsertAt(q, item, i) ==
    IF i > Len(q) THEN Append(q, item)
    ELSE IF item.priority > q[i].priority
         THEN SubSeq(q, 1, i - 1) \o <<item>> \o SubSeq(q, i, Len(q))
         ELSE InsertAt(q, item, i + 1)

RECURSIVE InsertAtOrEqual(_, _, _)
InsertAtOrEqual(q, item, i) ==
    IF i > Len(q) THEN Append(q, item)
    ELSE IF item.priority >= q[i].priority
         THEN SubSeq(q, 1, i - 1) \o <<item>> \o SubSeq(q, i, Len(q))
         ELSE InsertAtOrEqual(q, item, i + 1)

InsertByPriorityLifo(q, item) == InsertAtOrEqual(q, item, 1)
InsertByPriorityFront(q, item) == <<item>> \o q
InsertByPriority(q, item) == InsertAt(q, item, 1)

\* ---- processQueue() ----
\* the guard at the top of processQueue(): return without starting a loop
SkipProcessQueueNoFlag(proc, q) == Len(q) = 0
SkipProcessQueue(proc, q) == proc \/ Len(q) = 0

\* the rate-limit wait of one loop iteration
MustWaitAlways(rc, waitTime) == waitTime > 0
MustWaitLax(rc, waitTime) == rc > config.requestsPerSecond /\ waitTime > 0
MustWait(rc, waitTime) == rc >= config.requestsPerSecond /\ waitTime > 0

\* the finally of processQueue(): the flag when the loop is left
ProcessingAfterKept(exit, proc) == proc
ProcessingAfter(exit, proc) == IF exit THEN FALSE ELSE proc

\* requestCount++ right after the shift() of an item
RecordStartNever(rc) == rc
RecordStart(rc) == rc + 1

\* One run of the while loop from its condition to the next await (or to
\* the end of the loop): the queue, counters and window after it, and what
\* the invocation is suspended on.
LoopRun(q, rc, el, ws) ==
    IF Len(q) = 0
    THEN [queue |-> q, requestCount |-> rc, elapsed |-> el,
          windowStarts |-> ws, exit |-> TRUE, loop |-> Off]
    ELSE LET reset == el >= WindowMs
             rc1 == IF reset THEN 0 ELSE rc
             el1 == IF reset THEN 0 ELSE el
             ws1 == IF reset THEN 0 ELSE ws
             waitTime == WindowMs - el1
         IN  IF MustWait(rc1, waitTime)
             THEN [queue |-> q, requestCount |-> rc1, elapsed |-> el1,
                   windowStarts |-> ws1, exit |-> FALSE,
                   loop |-> [st |-> "sleep", item |-> NoItem,
                             rem |-> waitTime]]
             ELSE [queue |-> Tail(q), requestCount |-> RecordStart(rc1),
                   elapsed |-> el1, windowStarts |-> ws1 + 1,
                   exit |-> FALSE,
                   loop |-> [st |-> "work", item |-> Head(q),
                             rem |-> WorkDelayMs]]

\* the units for which a run of the loop has called analyzeItem()
Started(w, r) ==
    IF r.loop.st = "work"
    THEN [w EXCEPT ![r.loop.item.id] = @ + 1]
    ELSE w

\* the callbacks of a unit when enqueue() returns from its rejection: the
\* reject is left to a setTimeout(..., 0)
DeliveredAfterRejectSync(del, u) == [del EXCEPT ![u] = Append(@, "QueueFull")]
DeliveredAfterReject(del, u) == del

\* pendingCount after the rejection of an enqueue() call (lines 35-41
\* return before the counter is touched)
PendingAfterRejectCounted(pc) == pc + 1
PendingAfterReject(pc) == pc

\* pendingCount after the try/catch/finally around analyzeItem()
PendingAfterWorkLeak(ok, pc) == IF ok THEN pc - 1 ELSE pc
PendingAfterWork(ok, pc) == pc - 1

\* ---- clear() ----
QueueAfterClearKept(q) == q
QueueAfterClear(q) == <<>>

\* the units whose errorCallback clear() invokes
ClearedIdsWithExecuting == QueuedIds \cup ExecutingIds
ClearedIds == QueuedIds

\* ---- getStatus() ----
Status ==
    [queueLength |-> Len(queue),
     processing |-> processing,
     requestCount |-> requestCount,
     timeUntilReset |-> Max(0, WindowMs - elapsed)]

\* the state after the constructor, for callers whose units are numbered U
InitUnits(U) ==
    /\ queue = <<>>
    /\ processing = FALSE
    /\ requestCount = 0
    /\ elapsed = 0
    /\ pendingCount = 0
    /\ loops = [l \in LoopIds |-> Off]
    /\ rejectTimers = {}
    /\ submitted = [u \in U |-> "no"]
    /\ delivered = [u \in U |-> <<>>]
    /\ arrivals = <<>>
    /\ windowStarts = 0
    /\ clearCalled = FALSE
    /\ onlySubmits = TRUE
    /\ workCalls = [u \in U |-> 0]

\* ---- RateLimiter (src/utils/rate-limiter.ts) ----
\* the executeWithRetry() calls that are made
MaxCalls == 3
CallIds == 1..MaxCalls

\* the defaults of the constructor, and the small configurations of the
\* limiter that is exercised (times in ms)
DefaultLimiterConfig ==
    [maxRequests |-> 30, timeWindowMs |-> 60000, retryDelayMs |-> 1000,
     maxRetries |-> 3]
LimiterConfigs ==
    [maxRequests : {1, 2}, timeWindowMs : {3}, retryDelayMs : {1},
     maxRetries : {0, 1, 2, 3}]

\* what operation() does: it returns a value, throws an error with status
\* 429, or throws another error
OperationResults == {"value", "status429", "otherError"}

IdleCall ==
    [pc |-> "idle", attempt |-> 0, rem |-> 0, opCalls |-> 0,
     outcome |-> "none"]

\* the state after the constructor, for a configuration out of C
InitLimiter(C) ==
    /\ limiterConfig \in C
    /\ requestTimestamps = <<>>
    /\ calls = [c \in CallIds |-> IdleCall]

Init ==
    /\ config \in Configs
    /\ InitUnits(Units)
    /\ stopwatch = 0 - 1
    /\ InitLimiter({DefaultLimiterConfig})

\* enqueue(data, priority, id) for the unit u; w is workCalls before the call
Enqueue(u, p, w) ==
    IF QueueFull(pendingCount)
    THEN /\ rejectTimers' = rejectTimers \cup {u}
         /\ submitted' = [submitted EXCEPT ![u] = "rejected"]
         /\ pendingCount' = PendingAfterReject(pendingCount)
         /\ workCalls' = w
         /\ UNCHANGED <<queue, processing, requestCount, elapsed,
                        loops, windowStarts>>
    ELSE LET item == [id |-> u, priority |-> ClampPriority(p)]
             q1 == InsertByPriority(queue, item)
             r == LoopRun(q1, requestCount, elapsed, windowStarts)
         IN  /\ submitted' = [submitted EXCEPT ![u] = "admitted"]
             /\ pendingCount' = pendingCount + 1
             /\ rejectTimers' = rejectTimers
             /\ IF SkipProcessQueue(processing, q1)
                THEN /\ queue' = q1
                     /\ workCalls' = w
                     /\ UNCHANGED <<processing, requestCount, elapsed,
                                    loops, windowStarts>>
                ELSE /\ FreeLoops # {}
                     /\ workCalls' = Started(w, r)
                     /\ queue' = r.queue
                     /\ requestCount' = r.requestCount
                     /\ elapsed' = r.elapsed
                     /\ windowStarts' = r.windowStarts
                     /\ processing' = ProcessingAfter(r.exit, TRUE)
                     /\ loops' = [loops EXCEPT ![NewLoop] = r.loop]

\* a call of enqueue(); callers' units are numbered in the order of the
\* calls
Submit(u, p) ==
    /\ submitted[u] = "no"
    /\ \A v \in DOMAIN submitted : v < u => submitted[v] # "no"
    /\ Enqueue(u, p, workCalls)
    /\ arrivals' = IF submitted'[u] = "admitted"
                   THEN Append(arrivals, u) ELSE arrivals
    /\ delivered' = IF submitted'[u] = "rejected"
                    THEN DeliveredAfterReject(delivered, u)
                    ELSE delivered
    /\ UNCHANGED limiterVars
    /\ UNCHANGED <<config, clearCalled, onlySubmits, stopwatch>>

\* a further call of enqueue(): the caller's unit takes over the number of
\* a unit whose lifecycle has ended, so that calls can go on without end
Without(s, x) == SelectSeq(s, LAMBDA y : y # x)
Resubmit(u, p) ==
    /\ delivered[u] # <<>>
    /\ u \notin QueuedIds \cup ExecutingIds \cup rejectTimers
    /\ Enqueue(u, p, [workCalls EXCEPT ![u] = 0])
    /\ arrivals' = IF submitted'[u] = "admitted"
                   THEN Append(Without(arrivals, u), u)
                   ELSE Without(arrivals, u)
    /\ delivered' = IF submitted'[u] = "rejected"
                    THEN DeliveredAfterReject(
                             [delivered EXCEPT ![u] = <<>>], u)
                    ELSE [delivered EXCEPT ![u] = <<>>]
    /\ UNCHANGED limiterVars
    /\ UNCHANGED <<config, clearCalled, onlySubmits, stopwatch>>

\* the zero-delay timer of a rejected enqueue() fires
RejectFire(u) ==
    /\ u \in rejectTimers
    /\ rejectTimers' = rejectTimers \ {u}
    /\ delivered' = [delivered EXCEPT ![u] = Append(@, "QueueFull")]
    /\ onlySubmits' = FALSE
    /\ UNCHANGED limiterVars
    /\ UNCHANGED <<config, queue, processing, requestCount, elapsed,
                   pendingCount, loops, submitted, arrivals, windowStarts,
                   clearCalled, workCalls, stopwatch>>

\* the sleep(waitTime) of a loop fires: continue
Wake(l) ==
    /\ loops[l].st = "sleep"
    /\ loops[l].rem = 0
    /\ LET r == LoopRun(queue, requestCount, elapsed, windowStarts)
       IN  /\ queue' = r.queue
           /\ requestCount' = r.requestCount
           /\ elapsed' = r.elapsed
           /\ windowStarts' = r.windowStarts
           /\ processing' = ProcessingAfter(r.exit, processing)
           /\ loops' = [loops EXCEPT ![l] = r.loop]
           /\ workCalls' = Started(workCalls, r)
    /\ onlySubmits' = FALSE
    /\ UNCHANGED limiterVars
    /\ UNCHANGED <<config, pendingCount, rejectTimers, submitted, delivered,
                   arrivals, clearCalled, stopwatch>>

\* the sleep(100) of analyzeItem fires: the work function returns (ok) or
\* throws, the callback is invoked, pendingCount is decremented and the
\* loop goes on
Complete(l, ok) ==
    /\ loops[l].st = "work"
    /\ loops[l].rem = 0
    /\ delivered' = [delivered EXCEPT ![loops[l].item.id] =
                        Append(@, IF ok THEN "result" ELSE "workError")]
    /\ pendingCount' = PendingAfterWork(ok, pendingCount)
    /\ LET r == LoopRun(queue, requestCount, elapsed, windowStarts)
       IN  /\ queue' = r.queue
           /\ requestCount' = r.requestCount
           /\ elapsed' = r.elapsed
           /\ windowStarts' = r.windowStarts
           /\ processing' = ProcessingAfter(r.exit, processing)
           /\ loops' = [loops EXCEPT ![l] = r.loop]
           /\ workCalls' = Started(workCalls, r)
    /\ onlySubmits' = FALSE
    /\ UNCHANGED limiterVars
    /\ UNCHANGED <<config, rejectTimers, submitted, arrivals, clearCalled,
                   stopwatch>>

\* clear()
Clear ==
    /\ delivered' = [u \in DOMAIN delivered |->
                        IF u \in ClearedIds
                        THEN Append(delivered[u], "QueueCleared")
                        ELSE delivered[u]]
    /\ queue' = QueueAfterClear(queue)
    /\ processing' = FALSE
    /\ pendingCount' = 0
    /\ clearCalled' = TRUE
    /\ onlySubmits' = FALSE
    /\ UNCHANGED limiterVars
    /\ UNCHANGED <<config, requestCount, elapsed, loops, rejectTimers,
                   submitted, arrivals, windowStarts, workCalls, stopwatch>>

\* the stopwatch runs from the first enqueue() call on
StopwatchAfter(sw, d) ==
    IF sw < 0 \/ \A u \in DOMAIN submitted : submitted[u] = "no"
    THEN sw
    ELSE Min(WindowMs, sw + d)

\* the clock advances by d; no pending timer is overtaken
Tick(d) ==
    /\ rejectTimers = {}
    /\ \A l \in ActiveLoops : loops[l].rem >= d
    /\ elapsed' = Min(WindowMs, elapsed + d)
    /\ loops' = [l \in LoopIds |->
                    IF loops[l].st = "off" THEN loops[l]
                    ELSE [loops[l] EXCEPT !.rem = @ - d]]
    /\ stopwatch' = StopwatchAfter(stopwatch, d)
    /\ onlySubmits' = FALSE
    /\ UNCHANGED limiterVars
    /\ UNCHANGED <<config, queue, processing, requestCount, pendingCount,
                   rejectTimers, submitted, delivered, arrivals,
                   windowStarts, clearCalled, workCalls>>

Next ==
    \/ \E u \in Units, p \in Priorities : Submit(u, p)
    \/ \E u \in Units : RejectFire(u)
    \/ \E l \in LoopIds : Wake(l)
    \/ \E l \in LoopIds, ok \in BOOLEAN : Complete(l, ok)
    \/ Clear
    \/ \E d \in TickSteps : Tick(d)

Spec == Init /\ [][Next]_vars

\* Callers that never stop calling, timers that fire, a work function that
\* terminates and a clock that keeps advancing.  The callers of this
\* specification use three unit numbers over and over again, on one
\* configuration, and call clear() only while at most one loop is active
\* (so that at most two loops ever are).
LiveUnits == {1, 2, 3}
LivePriorities == {0, 1}
LiveConfig ==
    [maxQueueSize |-> 2, requestsPerSecond |-> 1, priorityLevels |-> 2]

InitLive == Init /\ config = LiveConfig

NextLive ==
    \/ \E u \in LiveUnits, p \in LivePriorities : Submit(u, p)
    \/ \E u \in LiveUnits, p \in LivePriorities : Resubmit(u, p)
    \/ \E u \in Units : RejectFire(u)
    \/ \E l \in LoopIds : Wake(l)
    \/ \E l \in LoopIds, ok \in BOOLEAN : Complete(l, ok)
    \/ Cardinality(ActiveLoops) <= 1 /\ Clear
    \/ \E d \in TickSteps : Tick(d)

Fairness ==
    /\ \A u \in Units : WF_vars(RejectFire(u))
    /\ \A l \in LoopIds : WF_vars(Wake(l))
    /\ \A l \in LoopIds : WF_vars(\E ok \in BOOLEAN : Complete(l, ok))
    /\ SF_vars(\E d \in TickSteps : Tick(d))

LiveSpec == InitLive /\ [][NextLive]_vars /\ Fairness

\* The priority test: enqueue() is called for 'low' (0), 'high' (2) and
\* 'medium' (1), in that order and with nothing in between, on a fresh
\* analyzer with three priority levels; then timers fire and time passes.
ScenarioPriority == <<0, 2, 1>>
ScenarioUnits == DOMAIN ScenarioPriority

InitPriority ==
    /\ config \in {c \in Configs : c.priorityLevels = Len(ScenarioPriority)}
    /\ InitUnits(ScenarioUnits)
    /\ stopwatch = 0 - 1
    /\ InitLimiter({DefaultLimiterConfig})

NextPriority ==
    \/ \E u \in ScenarioUnits : onlySubmits /\ Submit(u, ScenarioPriority[u])
    \/ \E u \in ScenarioUnits : RejectFire(u)
    \/ \E l \in LoopIds : Wake(l)
    \/ \E l \in LoopIds, ok \in BOOLEAN : Complete(l, ok)
    \/ \E d \in TickSteps : Tick(d)

PrioritySpec == InitPriority /\ [][NextPriority]_vars

\* The rate-limit test: a fresh analyzer with requestsPerSecond 2 and
\* maxQueueSize 10; some time after its construction enqueue() is called
\* five times at one instant, with any priorities, and a stopwatch is
\* started; then timers fire and time passes.
TimingUnits == 5
TimingUnitIds == 1..TimingUnits
TimingConfig ==
    [maxQueueSize |-> 10, requestsPerSecond |-> 2, priorityLevels |-> 3]
TimingTickSteps == {50}

InitTiming ==
    /\ config = TimingConfig
    /\ InitUnits(TimingUnitIds)
    /\ stopwatch = 0
    /\ InitLimiter({DefaultLimiterConfig})

NextTiming ==
    \/ \E u \in TimingUnitIds, p \in Priorities :
          stopwatch = 0 /\ Submit(u, p)
    \/ \E l \in LoopIds : Wake(l)
    \/ \E l \in LoopIds, ok \in BOOLEAN : Complete(l, ok)
    \/ \E d \in TimingTickSteps : Tick(d)

TimingSpec == InitTiming /\ [][NextTiming]_vars

\* Callers whose priorities are known from the number of their unit: below
\* the tiers, above them and each value in between, on every configuration.
AskedPriority == <<0 - 1, 3, 0, 2, 1>>
ClampUnits == DOMAIN AskedPriority

InitClamp ==
    /\ config \in Configs
    /\ InitUnits(ClampUnits)
    /\ stopwatch = 0 - 1
    /\ InitLimiter({DefaultLimiterConfig})

NextClamp ==
    \/ \E u \in ClampUnits : Submit(u, AskedPriority[u])
    \/ \E u \in ClampUnits : RejectFire(u)
    \/ \E l \in LoopIds : Wake(l)
    \/ \E l \in LoopIds, ok \in BOOLEAN : Complete(l, ok)
    \/ \E d \in TickSteps : Tick(d)

ClampSpec == InitClamp /\ [][NextClamp]_vars

\* ---- RateLimiter: the steps of executeWithRetry() ----
RECURSIVE Pow2(_)
Pow2(n) == IF n = 0 THEN 1 ELSE 2 * Pow2(n - 1)

\* cleanOldTimestamps(): keep timestamp > now - timeWindowMs
CleanOldTimestamps(ts) ==
    SelectSeq(ts, LAMBDA age : age < limiterConfig.timeWindowMs)

\* canMakeRequest(), on the cleaned timestamps
CanMakeRequest(ts) == Len(ts) < limiterConfig.maxRequests

\* Math.min(...timestamps) is the timestamp of the greatest age
RECURSIVE MaxAge(_)
MaxAge(ts) ==
    IF Len(ts) = 0 THEN 0 ELSE Max(Head(ts), MaxAge(Tail(ts)))

\* One pass through the head of the for loop for the call c, up to the
\* first await: the loop condition, canMakeRequest(), waitForNextWindow()
\* up to its sleep, or the push of the timestamp and the call of
\* operation()
StartOperation(cl, ts) ==
    /\ requestTimestamps' = Append(ts, 0)
    /\ calls' = [calls EXCEPT ![cl.c] =
                    [pc |-> "op", attempt |-> cl.attempt, rem |-> 0,
                     opCalls |-> cl.opCalls + 1, outcome |-> "none"]]

Attempt(c, attempt) ==
    LET cl == [c |-> c, attempt |-> attempt, opCalls |-> calls[c].opCalls]
        ts == CleanOldTimestamps(requestTimestamps)
        waitTime == limiterConfig.timeWindowMs - MaxAge(ts)
    IN  IF ~(attempt < limiterConfig.maxRetries)
        THEN /\ calls' = [calls EXCEPT ![c] =
                             [@ EXCEPT !.pc = "thrown",
                                       !.outcome = "RateLimitError"]]
             /\ requestTimestamps' = requestTimestamps
        ELSE IF CanMakeRequest(ts)
        THEN StartOperation(cl, ts)
        ELSE IF Len(ts) # 0 /\ waitTime > 0
        THEN /\ requestTimestamps' = ts
             /\ calls' = [calls EXCEPT ![c] =
                             [@ EXCEPT !.pc = "wait", !.attempt = attempt,
                                       !.rem = waitTime]]
        ELSE StartOperation(cl, ts)

\* a call of executeWithRetry()
Call(c) ==
    /\ calls[c].pc = "idle"
    /\ \A d \in CallIds : d < c => calls[d].pc # "idle"
    /\ Attempt(c, 0)
    /\ UNCHANGED <<limiterConfig, analyzerVars>>

\* the sleep of waitForNextWindow() fires: the timestamp is pushed and
\* operation() called, with no further test
WakeWindow(c) ==
    /\ calls[c].pc = "wait"
    /\ calls[c].rem = 0
    /\ StartOperation([c |-> c, attempt |-> calls[c].attempt,
                       opCalls |-> calls[c].opCalls], requestTimestamps)
    /\ UNCHANGED <<limiterConfig, analyzerVars>>

\* operation() settles: return of the value, or the catch block
Settle(c, res) ==
    /\ calls[c].pc = "op"
    /\ LET isRateLimit == res = "status429"
           isLastAttempt == calls[c].attempt = limiterConfig.maxRetries - 1
       IN  calls' = [calls EXCEPT ![c] =
              IF res = "value"
              THEN [@ EXCEPT !.pc = "returned", !.outcome = res]
              ELSE IF ~isRateLimit \/ isLastAttempt
              THEN [@ EXCEPT !.pc = "thrown", !.outcome = res]
              ELSE [@ EXCEPT !.pc = "backoff",
                             !.rem = limiterConfig.retryDelayMs
                                        * Pow2(calls[c].attempt)]]
    /\ UNCHANGED <<limiterConfig, requestTimestamps, analyzerVars>>

\* the sleep(delayMs) of the catch block fires: the next attempt
WakeBackoff(c) ==
    /\ calls[c].pc = "backoff"
    /\ calls[c].rem = 0
    /\ Attempt(c, calls[c].attempt + 1)
    /\ UNCHANGED <<limiterConfig, analyzerVars>>

SleepingCalls == {c \in CallIds : calls[c].pc \in {"wait", "backoff"}}

\* one millisecond passes; no pending timer is overtaken
LimiterTick ==
    /\ \A c \in SleepingCalls : calls[c].rem >= 1
    /\ requestTimestamps' =
          [i \in 1..Len(requestTimestamps) |->
              Min(limiterConfig.timeWindowMs, requestTimestamps[i] + 1)]
    /\ calls' = [c \in CallIds |->
                    IF c \in SleepingCalls
                    THEN [calls[c] EXCEPT !.rem = @ - 1]
                    ELSE calls[c]]
    /\ UNCHANGED <<limiterConfig, analyzerVars>>

InitLimiterSpec ==
    /\ config = LiveConfig
    /\ InitUnits(Units)
    /\ stopwatch = 0 - 1
    /\ InitLimiter(LimiterConfigs)

NextLimiter ==
    \/ \E c \in CallIds : Call(c)
    \/ \E c \in CallIds : WakeWindow(c)
    \/ \E c \in CallIds, res \in OperationResults : Settle(c, res)
    \/ \E c \in CallIds : WakeBackoff(c)
    \/ LimiterTick

LimiterSpec == InitLimiterSpec /\ [][NextLimiter]_vars

\* ---- derived notions used by the properties ----
Pos(s, x) == CHOOSE i \in 1..Len(s) : s[i] = x
ArrivedBefore(s, x, y) == Pos(s, x) < Pos(s, y)
Occupancy == Cardinality(QueuedIds) + Cardinality(WorkingLoops)
AdmittedIds == {u \in DOMAIN submitted : submitted[u] = "admitted"}
RejectedIds == {u \in DOMAIN submitted : submitted[u] = "rejected"}
WorkOutcomes == {<<"result">>, <<"workError">>}
SubmittedIds == AdmittedIds \cup RejectedIds

TypeOK ==
    /\ config \in Configs
    /\ processing \in BOOLEAN
    /\ requestCount \in 0..config.requestsPerSecond
    /\ elapsed \in 0..WindowMs
    /\ pendingCount \in (0 - MaxUnits)..MaxCapacity
    /\ rejectTimers \subseteq Units
    /\ workCalls \in [Units -> 0..1]
    /\ stopwatch = 0 - 1

\* C1: every unit has at most one callback invocation in total (success or
\* failure), whatever the interleaving of enqueue(), clear() and loop steps
AtMostOnceOutcome == \A u \in Units : Len(delivered[u]) <= 1

AtMostOnceOutcomeWitness ==
    /\ clearCalled
    /\ \E u, v, w \in Units :
          /\ delivered[u] = <<"QueueCleared">>
          /\ delivered[v] = <<"result">>
          /\ delivered[w] = <<"QueueFull">>

\* C2: every submitted unit eventually has a callback invoked
Pending(u) == submitted[u] # "no" /\ delivered[u] = <<>>
EventualOutcome == \A u \in Units : Pending(u) ~> (delivered[u] # <<>>)

\* C2 (amended): every submitted unit eventually has a callback invoked,
\* unless units of strictly higher priority are admitted again and again
\* while it waits in the buffer
QueuedPriority(u) == queue[CHOOSE i \in 1..Len(queue) : queue[i].id = u].priority
Overtaken(u) ==
    /\ u \in QueuedIds
    /\ \E v \in Units \ {u}, p \in Priorities :
          /\ Submit(v, p) \/ Resubmit(v, p)
          /\ submitted'[v] = "admitted"
          /\ ClampPriority(p) > QueuedPriority(u)
EventualOutcomeUnlessOvertaken ==
    \A u \in Units :
       \/ []<><<Overtaken(u)>>_vars
       \/ Pending(u) ~> (delivered[u] # <<>>)

EventualOutcomeWitness ==
    /\ Len(queue) = 2
    /\ queue[1].priority > queue[2].priority
    /\ ArrivedBefore(arrivals, queue[2].id, queue[1].id)
    /\ Pending(queue[2].id)
    /\ \E u \in Units : delivered[u] = <<"result">>

\* C3: the units queued plus the units executing never exceed maxQueueSize
OccupancyWithinCapacity == Occupancy <= config.maxQueueSize

\* C4: the pendingCount counter never exceeds maxQueueSize
PendingCountWithinCapacity == pendingCount <= config.maxQueueSize

PendingCountWithinCapacityWitness ==
    /\ pendingCount = config.maxQueueSize
    /\ RejectedIds # {}
    /\ Cardinality(AdmittedIds) > config.maxQueueSize

\* C5: at most one unit is executing at any time
SerializedExecution == Cardinality(WorkingLoops) <= 1

\* C6: at most one processQueue() loop is active at any time, also when
\* clear() is called while the loop is suspended and enqueue() follows
SingleDrainLoop == Cardinality(ActiveLoops) <= 1

\* C7: as long as clear() has never been called, enqueue() calls never make
\* a second loop active
NoDuplicateLoopWithoutClear ==
    ~clearCalled => Cardinality(ActiveLoops) <= 1

NoDuplicateLoopWithoutClearWitness ==
    /\ ~clearCalled
    /\ processing
    /\ Cardinality(ActiveLoops) = 1
    /\ Len(queue) >= 1
    /\ \E u \in Units : delivered[u] = <<"result">>

\* C8: at most requestsPerSecond units begin execution between two
\* assignments of lastResetTime, requestCount never exceeds
\* requestsPerSecond, and lastResetTime is only reassigned once 1000ms have
\* passed since the previous assignment
RateBound ==
    /\ [](requestCount <= config.requestsPerSecond
            /\ windowStarts <= config.requestsPerSecond)
    /\ [][elapsed' < elapsed => elapsed >= WindowMs]_vars

RateBoundWitness ==
    /\ windowStarts = config.requestsPerSecond
    /\ \E l \in LoopIds : loops[l].st = "sleep" /\ loops[l].rem = 0
    /\ Len(queue) >= 1
    /\ \E u \in Units : delivered[u] # <<>>

\* C9: the unit a loop dequeues has the highest priority of the units in the
\* buffer at that moment and, among those, is the one admitted first
StartsNow(l) ==
    /\ loops'[l].st = "work"
    /\ loops'[l].item.id \notin ExecutingIds
PriorityDequeueOrder ==
    [][\A l \in LoopIds : StartsNow(l) =>
          \A i \in 1..Len(queue') :
             \/ loops'[l].item.priority > queue'[i].priority
             \/ /\ loops'[l].item.priority = queue'[i].priority
                /\ ArrivedBefore(arrivals', loops'[l].item.id,
                                 queue'[i].id)]_vars

PriorityDequeueOrderWitness ==
    \E l \in WorkingLoops :
       \E i \in 1..Len(queue) :
          /\ queue[i].priority < loops[l].item.priority
          /\ ArrivedBefore(arrivals, queue[i].id, loops[l].item.id)

ClearAtomicity ==
    [][Clear =>
          /\ \A u \in Units :
                delivered'[u] = IF u \in QueuedIds
                                THEN Append(delivered[u], "QueueCleared")
                                ELSE delivered[u]
          /\ Cardinality({u \in Units : delivered'[u] # delivered[u]})
               = Len(queue)
          /\ Status'.queueLength = 0
          /\ pendingCount' = 0]_vars

ClearAtomicityWitness ==
    /\ clearCalled
    /\ queue = <<>>
    /\ pendingCount = 0
    /\ Cardinality({u \in Units : delivered[u] = <<"QueueCleared">>}) = 2
    /\ ExecutingIds # {}

\* C12: clear() does not touch a unit that is executing: the unit stays
\* with its loop, no callback of it is invoked by clear(), and the only
\* callback it ever gets is the one for the outcome of analyzeItem()
ExecutingSurvivesClear ==
    /\ [][Clear =>
            \A u \in ExecutingIds :
               delivered'[u] = delivered[u] /\ u \in ExecutingIds']_vars
    /\ [](\A u \in Units :
            workCalls[u] > 0 =>
               IF u \in ExecutingIds
               THEN delivered[u] = <<>>
               ELSE delivered[u] \in WorkOutcomes)

ExecutingSurvivesClearWitness ==
    /\ clearCalled
    /\ pendingCount = 0 - 1
    /\ \E u \in Units : workCalls[u] = 1 /\ delivered[u] = <<"workError">>

\* C13: two units are submitted to a fresh queue and clear() is called
\* right after them: both units get the 'Queue cleared' error, and
\* getStatus() then reports queueLength 0 and processing false
ClearScenario ==
    /\ onlySubmits
    /\ Cardinality(SubmittedIds) = 2
    /\ Clear
WorkFailureContained ==
    [][\A l \in LoopIds :
          Complete(l, FALSE) =>
             /\ delivered' = [delivered EXCEPT ![loops[l].item.id] =
                                 Append(@, "workError")]
             /\ pendingCount' = pendingCount - 1
             /\ submitted' = submitted
             /\ \A m \in LoopIds \ {l} : loops'[m] = loops[m]
             /\ IF queue = <<>>
                THEN queue' = <<>> /\ loops'[l].st = "off"
                ELSE \/ queue' = queue /\ loops'[l].st = "sleep"
                     \/ /\ queue' = Tail(queue)
                        /\ loops'[l].st = "work"
                        /\ loops'[l].item = Head(queue)]_vars

WorkFailureContainedWitness ==
    /\ ~clearCalled
    /\ \E u \in Units : delivered[u] = <<"workError">>
    /\ \E l \in WorkingLoops : delivered[loops[l].item.id] = <<>>
    /\ pendingCount = Occupancy

\* C17: an enqueue() call that is rejected because the queue is full
\* changes neither the buffer, nor pendingCount, nor the processing flag,
\* nor the rate window, nor any loop; the rejected unit is never in the
\* buffer and analyzeItem() is never called for it
RejectionChangesNothing ==
    /\ [][\A u \in Units :
            (submitted[u] = "no" /\ submitted'[u] = "rejected") =>
               UNCHANGED <<queue, pendingCount, processing, elapsed,
                           requestCount, windowStarts, loops, delivered,
                           workCalls>>]_vars
    /\ [](\A u \in RejectedIds :
            /\ u \notin QueuedIds
            /\ u \notin ExecutingIds
            /\ workCalls[u] = 0)

RejectionChangesNothingWitness ==
    /\ ~clearCalled
    /\ processing
    /\ Len(queue) >= 1
    /\ \E u \in RejectedIds : delivered[u] = <<"QueueFull">>

\* C18: analyzeItem() is called at most once for a unit, and only for a
\* unit that was admitted and taken out of the buffer, never for a rejected
\* or a cleared one; a unit that has left the buffer never enters it again
NoRetryNoReentry ==
    /\ [](\A u \in Units :
            /\ workCalls[u] <= 1
            /\ workCalls[u] = 1 =>
                  /\ submitted[u] = "admitted"
                  /\ u \notin QueuedIds
                  /\ delivered[u] \in {<<>>} \cup WorkOutcomes
            /\ (u \in RejectedIds \/ delivered[u] = <<"QueueCleared">>) =>
                  workCalls[u] = 0)
    /\ [][\A u \in Units :
            /\ (u \in QueuedIds' /\ u \notin QueuedIds) =>
                  submitted[u] = "no"
            /\ workCalls'[u] > workCalls[u] =>
                  \/ u \in QueuedIds
                  \/ submitted[u] = "no" /\ submitted'[u] = "admitted"]_vars

NoRetryNoReentryWitness ==
    /\ ActiveLoops = {}
    /\ rejectTimers = {}
    /\ \E u, v, w \in Units :
          /\ workCalls[u] = 1 /\ delivered[u] = <<"result">>
          /\ workCalls[v] = 0 /\ delivered[v] = <<"QueueCleared">>
          /\ workCalls[w] = 0 /\ delivered[w] = <<"QueueFull">>

\* C19: pendingCount is the number of units queued plus the number of
\* units executing in every reachable state, and it is never negative
PendingCountIsOccupancy ==
    /\ pendingCount = Occupancy
    /\ pendingCount >= 0

\* C14: 'low' (0), 'high' (2) and 'medium' (1) are submitted in that order
\* to a fresh queue with nothing in between: analyzeItem() is called for
\* high first, then for medium, then for low
StartedIds == {u \in DOMAIN workCalls : workCalls[u] > 0}
PriorityScenarioHighFirst ==
    AdmittedIds = ScenarioUnits =>
       /\ 1 \in StartedIds => 3 \in StartedIds
       /\ 3 \in StartedIds => 2 \in StartedIds

\* C14 (amended): in that scenario analyzeItem() is called for low first,
\* within low's own enqueue() call and before high and medium are
\* submitted, then for high, then for medium (as far as maxQueueSize lets
\* them in)
PriorityScenarioLowFirst ==
    /\ 1 \in AdmittedIds => 1 \in StartedIds
    /\ (onlySubmits /\ 1 \in AdmittedIds) =>
          /\ 1 \in ExecutingIds
          /\ StartedIds = {1}
    /\ 3 \in StartedIds => 2 \in StartedIds

PriorityScenarioWitness ==
    /\ AdmittedIds = ScenarioUnits
    /\ delivered[1] # <<>>
    /\ 2 \in ExecutingIds
    /\ QueuedIds = {3}

\* C15: requestsPerSecond 2, maxQueueSize 10, five units submitted at one
\* instant: when all five have had their callback, at least 1000ms have
\* passed since the submission, whatever the age of the rate window was
RateTiming ==
    (\A u \in TimingUnitIds : delivered[u] # <<>>) => stopwatch >= WindowMs

RateTimingWitness ==
    /\ \A u \in TimingUnitIds : delivered[u] \in WorkOutcomes
    /\ stopwatch >= WindowMs
    /\ ActiveLoops = {}

\* C20: every unit in the buffer or executing carries the priority
\* min(max(p, 0), priorityLevels - 1) for the p its caller passed, which is
\* within 0..priorityLevels - 1, and enqueue() only rejects on a full queue,
\* whatever the priority
StoredAsClamped(item) ==
    /\ item.priority =
          Min(Max(AskedPriority[item.id], 0), config.priorityLevels - 1)
    /\ item.priority \in 0..(config.priorityLevels - 1)
PriorityClamped ==
    /\ [](\A i \in 1..Len(queue) : StoredAsClamped(queue[i]))
    /\ [](\A l \in WorkingLoops : StoredAsClamped(loops[l].item))
    /\ [][\A u \in ClampUnits :
            (submitted[u] = "no" /\ submitted'[u] # "no") =>
               IF pendingCount >= config.maxQueueSize
               THEN submitted'[u] = "rejected"
               ELSE u \in QueuedIds' \cup ExecutingIds']_vars

PriorityClampedWitness ==
    /\ config.priorityLevels = 2
    /\ \E l \in WorkingLoops : loops[l].item = [id |-> 1, priority |-> 0]
    /\ \E i \in 1..Len(queue) : queue[i] = [id |-> 2, priority |-> 1]
    /\ \E i \in 1..Len(queue) : queue[i] = [id |-> 3, priority |-> 0]

\* C21: the 'Queue is full' rejection is never delivered within the
\* enqueue() call that is rejected: the call only arms a zero-delay timer,
\* and the error is delivered by a later task, the firing of that timer;
\* enqueue(), clear() and loop tasks can run in between
DeferredRejection ==
    /\ [][\A u \in Units :
            (submitted[u] = "no" /\ submitted'[u] = "rejected") =>
               /\ delivered'[u] = <<>>
               /\ u \in rejectTimers']_vars
    /\ [][\A u \in Units :
            (delivered'[u] # delivered[u]
               /\ delivered'[u] = <<"QueueFull">>) =>
               /\ u \in rejectTimers
               /\ u \notin rejectTimers'
               /\ submitted[u] = "rejected"]_vars
    /\ [](\A u \in rejectTimers : delivered[u] = <<>>)

DeferredRejectionWitness ==
    /\ config.maxQueueSize = 1
    /\ 2 \in rejectTimers
    /\ delivered[2] = <<>>
    /\ clearCalled
    /\ {1, 3} \subseteq ExecutingIds

\* C22: the buffer is always ordered by non-increasing priority, units of
\* equal priority in the order of their admission; an admission puts the
\* new unit right before the first unit of strictly lower priority (at the
\* end if there is none) and leaves the units already there in their order
SortedQueue(q) ==
    \A i, j \in 1..Len(q) :
       i < j =>
          \/ q[i].priority > q[j].priority
          \/ /\ q[i].priority = q[j].priority
             /\ ArrivedBefore(arrivals, q[i].id, q[j].id)
\* the buffer as insertByPriority() left it within a step, before the loop
\* started by the same step took its head
QueueAsInserted ==
    LET started == {l \in LoopIds : StartsNow(l)}
    IN  IF started = {} THEN queue'
        ELSE <<loops'[CHOOSE l \in started : TRUE].item>> \o queue'
SortedBuffer ==
    /\ [](SortedQueue(queue))
    /\ [][\A u \in Units :
            (submitted[u] = "no" /\ submitted'[u] = "admitted") =>
               LET q1 == QueueAsInserted
                   k == CHOOSE i \in 1..Len(q1) : q1[i].id = u
               IN  /\ \E i \in 1..Len(q1) : q1[i].id = u
                   /\ SubSeq(q1, 1, k - 1) \o SubSeq(q1, k + 1, Len(q1))
                        = queue
                   /\ \A i \in 1..(k - 1) :
                         q1[i].priority >= q1[k].priority
                   /\ \A i \in (k + 1)..Len(q1) :
                         q1[i].priority < q1[k].priority]_vars

SortedBufferWitness ==
    /\ Len(queue) = 2
    /\ queue[1].priority = queue[2].priority
    /\ queue[1].priority > 0
    /\ ArrivedBefore(arrivals, queue[1].id, queue[2].id)
    /\ \E l \in WorkingLoops : loops[l].item.priority < queue[1].priority

\* C23: for a unit that was executed pendingCount is decremented once, in
\* the task that invokes its callback or errorCallback and not before, so
\* that no enqueue() call is admitted into the place of a unit that is
\* still queued or executing
SlotReleaseFollowsDelivery ==
    /\ [][\A l \in LoopIds, ok \in BOOLEAN :
            Complete(l, ok) =>
               /\ delivered'[loops[l].item.id] # delivered[loops[l].item.id]
               /\ pendingCount' = pendingCount - 1]_vars
    /\ [][\A u \in Units :
            (submitted[u] = "no" /\ submitted'[u] = "admitted") =>
               Occupancy < config.maxQueueSize]_vars

\* C24: requestCount goes up by exactly one for each unit for which
\* analyzeItem() is called, in the step that takes the unit out of the
\* buffer (whether analyzeItem() later fails or not), and in no other
\* step; it never goes up for a rejected or a cleared unit
StartsInStep == {u \in Units : workCalls'[u] # workCalls[u]}
StartAccounting ==
    /\ [][/\ Cardinality(StartsInStep) <= 1
          /\ \A u \in StartsInStep :
                /\ workCalls'[u] = workCalls[u] + 1
                /\ u \in ExecutingIds' /\ u \notin QueuedIds'
                /\ submitted'[u] = "admitted"
          /\ requestCount' =
                (IF elapsed' < elapsed THEN 0 ELSE requestCount)
                   + Cardinality(StartsInStep)]_vars
    /\ [](\A u \in Units :
            (u \in RejectedIds \/ delivered[u] = <<"QueueCleared">>) =>
               workCalls[u] = 0)

StartAccountingWitness ==
    /\ requestCount = 2
    /\ windowStarts = 2
    /\ \E u, v \in Units :
          /\ delivered[u] = <<"workError">>
          /\ v \in ExecutingIds
    /\ \E w \in Units : delivered[w] = <<"QueueCleared">>

\* C25: the limit is per fixed window, not per sliding interval: units
\* that begin execution less than 1000ms apart number at most twice
\* requestsPerSecond, at most requestsPerSecond of them on either side of
\* the window reset between them, and more than requestsPerSecond of them
\* do begin within such a span (the witness)
StartsBeforeReset == Cardinality(StartedIds) - windowStarts
FixedWindowBurst ==
    stopwatch < WindowMs =>
       /\ windowStarts <= config.requestsPerSecond
       /\ StartsBeforeReset \in 0..config.requestsPerSecond
       /\ Cardinality(StartedIds) <= 2 * config.requestsPerSecond

FixedWindowBurstWitness ==
    /\ stopwatch < WindowMs
    /\ StartsBeforeReset = config.requestsPerSecond
    /\ windowStarts = config.requestsPerSecond
    /\ Cardinality(StartedIds) = 2 * config.requestsPerSecond

\* C26: a loop that finds the buffer empty sets processing to false and
\* ends in the same task; whenever every submitted unit has had its
\* callback the buffer is empty and processing is false; and an enqueue()
\* call admitted while processing is false starts a new loop
AllResolved == \A u \in SubmittedIds : delivered[u] # <<>>
LoopEnds(l) == loops[l].st # "off" /\ loops'[l].st = "off"
ReturnToIdle ==
    /\ [][\A l \in LoopIds :
            LoopEnds(l) => (queue = <<>> /\ queue' = <<>> /\ ~processing')]_vars
    /\ [](AllResolved => (queue = <<>> /\ ~Status.processing))
    /\ [][\A u \in Units :
            (submitted[u] = "no" /\ submitted'[u] = "admitted"
               /\ ~processing) =>
               /\ processing'
               /\ Cardinality(ActiveLoops')
                    = Cardinality(ActiveLoops) + 1]_vars

ReturnToIdleWitness ==
    /\ ~clearCalled
    /\ config.maxQueueSize = 1
    /\ AllResolved
    /\ ActiveLoops = {}
    /\ Cardinality(SubmittedIds) = MaxUnits
    /\ \E u \in Units : delivered[u] = <<"QueueFull">>
    /\ Cardinality({u \in Units : delivered[u] \in WorkOutcomes}) >= 2

\* C27: the processing flag that getStatus() reports is true exactly when
\* a processQueue() invocation is active (sleeping for the rate window or
\* awaiting analyzeItem())
DrainingFlagTruthful == Status.processing <=> ActiveLoops # {}

\* C28: an enqueue() call admitted while processing is false and the rate
\* window has room takes its unit out of the buffer and calls analyzeItem()
\* for it before it returns: the buffer is empty again and processing is
\* true; a clear() or an enqueue() of higher priority that follows neither
\* fails that unit nor gets ahead of it
WindowHasRoom ==
    elapsed >= WindowMs \/ requestCount < config.requestsPerSecond
ImmediateStart ==
    /\ [][\A u \in Units :
            (submitted[u] = "no" /\ submitted'[u] = "admitted"
               /\ ~processing /\ WindowHasRoom) =>
               /\ queue' = <<>>
               /\ u \in ExecutingIds'
               /\ workCalls'[u] = 1
               /\ processing']_vars
    /\ [][\A u \in ExecutingIds :
            \/ u \in ExecutingIds' /\ delivered'[u] = delivered[u]
            \/ delivered'[u] \in WorkOutcomes]_vars

ImmediateStartWitness ==
    /\ clearCalled
    /\ \E l \in WorkingLoops :
          /\ loops[l].item.id = 1
          /\ loops[l].rem = WorkDelayMs
          /\ delivered[1] = <<>>
          /\ \E i \in 1..Len(queue) :
                queue[i].priority > loops[l].item.priority

\* C29: no more than maxRequests operations are started within any
\* timeWindowMs: of the timestamps recorded, at most maxRequests are
\* younger than timeWindowMs, also when several calls are in flight
RecentStarts ==
    {i \in 1..Len(requestTimestamps) :
        requestTimestamps[i] < limiterConfig.timeWindowMs}
SlidingWindowBound ==
    Cardinality(RecentStarts) <= limiterConfig.maxRequests

\* C30: operation() is invoked at most maxRetries times per call, a retry
\* follows only an error with status 429, any other error is rethrown at
\* once, and a call whose operation() failed with status 429 on each of
\* its maxRetries attempts fails with a RateLimitError
RetryExhaustion ==
    \A c \in CallIds :
       /\ calls[c].opCalls <= limiterConfig.maxRetries
       /\ calls[c].opCalls = calls[c].attempt
             + (IF calls[c].pc \in {"idle", "wait"} THEN 0 ELSE 1)
          \/ limiterConfig.maxRetries = 0
       /\ calls[c].outcome = "otherError" => calls[c].pc = "thrown"
       /\ (calls[c].pc = "thrown"
             /\ calls[c].opCalls = limiterConfig.maxRetries) =>
             calls[c].outcome \in {"RateLimitError", "otherError"}
====
